---- MODULE Spec2Model ----
(***************************************************************************)
(* Model of utils/frame/remote-externalities/src/lib.rs: the Builder that  *)
(* loads key-value state either from a remote node (Online: state_getKeys- *)
(* Paged / state_getStorage / chain_getFinalizedHead) or from a state      *)
(* snapshot file (Offline), appends the injected pairs and inserts the     *)
(* result into a TestExternalities.                                        *)
(*                                                                         *)
(* Every await of the source is one action: the session is sequential, so  *)
(* a request and its response are one step whose outcome (a result or an   *)
(* error) is chosen by the remote.                                         *)
(***************************************************************************)
EXTENDS Integers, Sequences, FiniteSets, TLC

VARIABLES
    pc,           \* position of the builder: config, or a step of build
    mode,         \* Builder::mode (Mode::Online(OnlineConfig) | Mode::Offline)
    inject,       \* Builder::inject
    client,       \* OnlineConfig::transport.client is Some
    config,       \* pre_build: the clone of self.mode taken at line 432
    remote,       \* the remote node: reference point -> (key -> value)
    fs,           \* content of the snapshot file, or NoFile
    fs0,          \* content of the snapshot file when build started
    scope,        \* load_remote: index of the module being scraped
    at,           \* load_remote: the local `at`
    last_key,     \* get_keys_paged: last_key
    all_keys,     \* get_keys_paged: all_keys; rpc_get_pairs_paged: keys
    pages,        \* get_keys_paged: page requests issued in this enumeration
    fetched,      \* rpc_get_pairs_paged: keys consumed by the for loop
    key_values,   \* rpc_get_pairs_paged: key_values
    filtered_kv,  \* load_remote: filtered_kv / keys_and_values
    scope_kv,     \* what each finished scope returned, in order
    base_kv,      \* pre_build: base_kv
    ext,          \* build: the TestExternalities, or None
    result,       \* build: None while running, "Ok" or the error string
    enums,        \* what each finished get_keys_paged returned, and its cost
    log           \* every transport request, file access and phase, in order

vars == <<pc, mode, inject, client, config, remote, fs, fs0, scope, at,
          last_key, all_keys, pages, fetched, key_values, filtered_kv,
          scope_kv, base_kv, ext, result, enums, log>>

-----------------------------------------------------------------------------
(* Bounds *)

MaxInject == 2     \* longest injection list
MaxModules == 2    \* longest module list

\* get_keys_paged's page size.  The source sets `const PAGE: u32 = 512`; the
\* model scales it down so that the stores it enumerates fill whole pages.
PAGE == 2

-----------------------------------------------------------------------------
(* Values *)

None == "None"

\* fs::read of the path: no such file, or a file holding bytes.
NoFile == [exists |-> FALSE, bytes |-> <<>>]
File(bytes) == [exists |-> TRUE, bytes |-> bytes]

\* Option<StorageKey>
NoKey == [some |-> FALSE, key |-> <<>>]
SomeKey(k) == [some |-> TRUE, key |-> k]

\* B::Hash: the reference points the remote knows.
Hashes == {"h1", "h2"}

\* Module names that may be configured.
ModuleNames == {"A", "B"}

\* twox_128(name): a fixed-length prefix per module name (16 bytes in the
\* source, one byte here).
Twox128(name) == IF name = "A" THEN <<1>> ELSE <<2>>

\* StorageKey of the remote stores.
Keys == {<<1>>, <<1, 1>>, <<1, 2>>, <<2>>, <<2, 1>>}

Last(s) == s[Len(s)]

Range(s) == {s[i] : i \in DOMAIN s}

RECURSIVE SeqsUpTo(_, _)
SeqsUpTo(S, n) ==
    IF n = 0 THEN {<<>>}
    ELSE LET shorter == SeqsUpTo(S, n - 1)
         IN  shorter \cup {Append(s, x) : s \in {t \in shorter : Len(t) = n - 1}, x \in S}

\* Ord for Vec<u8>: lexicographic over bytes.
RECURSIVE LexLess(_, _)
LexLess(a, b) ==
    IF b = <<>> THEN FALSE
    ELSE IF a = <<>> THEN TRUE
    ELSE IF a[1] # b[1] THEN a[1] < b[1]
    ELSE LexLess(Tail(a), Tail(b))

StartsWith(k, prefix) ==
    /\ Len(prefix) <= Len(k)
    /\ SubSeq(k, 1, Len(prefix)) = prefix

-----------------------------------------------------------------------------
(* The snapshot codec: <[KeyPair] as Encode>::encode and                     *)
(* <Vec<KeyPair> as Decode>::decode (SCALE).  A Vec is its Compact<u32>      *)
(* length followed by its items; a KeyPair is the key then the value, each   *)
(* a Vec<u8>.                                                                *)

\* Compact<u32>: single-byte mode below 2^6, two-byte mode below 2^14.  No
\* sequence of the model is longer than that.
EncodeCompact(n) ==
    IF n < 64 THEN <<4 * n>>
    ELSE <<(4 * n + 1) % 256, (4 * n + 1) \div 256>>

EncodeBytes(b) == EncodeCompact(Len(b)) \o b

RECURSIVE EncodePairs(_)
EncodePairs(data) ==
    IF data = <<>> THEN <<>>
    ELSE EncodeBytes(data[1][1]) \o EncodeBytes(data[1][2]) \o EncodePairs(Tail(data))

Encode(data) == EncodeCompact(Len(data)) \o EncodePairs(data)

DecodeFail == [ok |-> FALSE, val |-> <<>>, next |-> 0]

\* Reads a Compact<u32> at pos.  The four-byte and big-integer modes only
\* encode values of 2^14 and more, which no input of the model is long
\* enough to satisfy, so whatever follows them fails; they are read as a
\* failure here.
DecodeCompact(bytes, pos) ==
    IF pos > Len(bytes) THEN DecodeFail
    ELSE LET b == bytes[pos]
         IN  CASE b % 4 = 0 -> [ok |-> TRUE, val |-> b \div 4, next |-> pos + 1]
               [] b % 4 = 1 ->
                    IF pos + 1 > Len(bytes) THEN DecodeFail
                    ELSE LET x == (b + 256 * bytes[pos + 1]) \div 4
                         IN  IF x > 63 THEN [ok |-> TRUE, val |-> x, next |-> pos + 2]
                             ELSE DecodeFail
               [] OTHER -> DecodeFail

DecodeBytes(bytes, pos) ==
    LET n == DecodeCompact(bytes, pos)
    IN  IF ~n.ok \/ n.next + n.val - 1 > Len(bytes) THEN DecodeFail
        ELSE [ok |-> TRUE,
              val |-> SubSeq(bytes, n.next, n.next + n.val - 1),
              next |-> n.next + n.val]

RECURSIVE DecodePairs(_, _, _, _)
DecodePairs(bytes, pos, n, acc) ==
    IF n = 0 THEN [ok |-> TRUE, val |-> acc, next |-> pos]
    ELSE LET k == DecodeBytes(bytes, pos)
         IN  IF ~k.ok THEN DecodeFail
             ELSE LET v == DecodeBytes(bytes, k.next)
                  IN  IF ~v.ok THEN DecodeFail
                      ELSE DecodePairs(bytes, v.next, n - 1, Append(acc, <<k.val, v.val>>))

\* Mutant: pairs with an empty value are left out of what is decoded.
DecodeDroppingEmpty(bytes) ==
    LET n == DecodeCompact(bytes, 1)
        d == IF ~n.ok THEN DecodeFail ELSE DecodePairs(bytes, n.next, n.val, <<>>)
    IN  [d EXCEPT !.val = SelectSeq(d.val, LAMBDA p : p[2] # <<>>)]

\* Decode::decode(&mut &*bytes): bytes left over after the last item are not
\* looked at.
Decode(bytes) ==
    LET n == DecodeCompact(bytes, 1)
    IN  IF ~n.ok THEN DecodeFail ELSE DecodePairs(bytes, n.next, n.val, <<>>)

-----------------------------------------------------------------------------
(* The environment: the remote node and the snapshot file *)

\* The key sets a reference point of the remote may hold.
KeySets == << {},
              {<<1>>, <<1, 1>>, <<2>>},
              Keys >>

\* The value the remote holds for a key: it differs from one reference point
\* to the other, and one key holds the empty value.
ValueAt(h, k) ==
    IF k = <<1, 1>> THEN <<>>
    ELSE IF h = "h1" THEN <<10 + Len(k)>> ELSE <<20 + Len(k)>>

StoreOf(h, keys) == [k \in keys |-> ValueAt(h, k)]

\* The remotes: what "h1" holds is any of the key sets, "h2" holds the next.
Remotes ==
    {[h \in Hashes |-> IF h = "h1" THEN StoreOf(h, KeySets[i])
                       ELSE StoreOf(h, KeySets[(i % Len(KeySets)) + 1])]
        : i \in DOMAIN KeySets}

\* Snapshot files found on disk: well-formed ones (empty, two pairs, a
\* repeated key), one cut short, one with bytes after the last pair.
SnapshotSeqs ==
    { <<>>,
      << <<<<1>>, <<170>>>>, <<<<2>>, <<187>>>> >>,
      << <<<<1>>, <<170>>>>, <<<<1>>, <<>>>> >> }

Truncated(bytes) == SubSeq(bytes, 1, Len(bytes) - 1)

Files ==
    {NoFile}
    \cup {File(Encode(s)) : s \in SnapshotSeqs}
    \cup {File(Truncated(Encode(s))) : s \in SnapshotSeqs \ {<<>>}}
    \cup {File(Encode(<<>>) \o <<7>>)}

\* The injected pairs a caller may pass: one that the remote may hold as it
\* is, one that gives the same key another value.
InjectPairs == { <<<<1>>, <<11>>>>, <<<<1>>, <<9>>>> }

-----------------------------------------------------------------------------
(* The remote node's side of the three procedures *)

\* The block the remote reads when a request names none: its best block.
BestBlock == "h2"

ResolveHash(hash) == IF hash = None THEN BestBlock ELSE hash

\* The keys of reference point `hash` under `prefix` that follow start_key.
Matching(prefix, start_key, hash) ==
    {k \in DOMAIN remote[ResolveHash(hash)] :
        /\ StartsWith(k, prefix)
        /\ start_key.some => LexLess(start_key.key, k)}

LexMin(S) == CHOOSE k \in S : \A j \in S \ {k} : LexLess(k, j)

RECURSIVE Smallest(_, _)
Smallest(S, count) ==
    IF count = 0 \/ S = {} THEN <<>>
    ELSE <<LexMin(S)>> \o Smallest(S \ {LexMin(S)}, count - 1)

\* state_getKeysPaged: the up-to-count smallest matching keys after start_key.
RemoteKeysPaged(prefix, count, start_key, hash) ==
    Smallest(Matching(prefix, start_key, hash), count)

\* state_getStorage: the value, or no value when the key is not there (the
\* client then fails to read a StorageData out of the response).
RemoteGetStorage(key, hash) ==
    IF key \in DOMAIN remote[ResolveHash(hash)]
    THEN [ok |-> TRUE, val |-> remote[ResolveHash(hash)][key]]
    ELSE [ok |-> FALSE, val |-> <<>>]

-----------------------------------------------------------------------------
(* Pure parts of the builder *)

\* Mutant: no page ends the enumeration.
IsLastPageNever(page_len) == FALSE

\* Mutant: a full page ends the enumeration too.
IsLastPageOrFull(page_len) == page_len <= PAGE

\* get_keys_paged: `if page_len < PAGE as usize`
IsLastPage(page_len) == page_len < PAGE

\* Mutant: the first key accumulated, not the last.
NewLastKeyFirst(keys) == SomeKey(keys[1])

\* get_keys_paged: `all_keys.last()`
NewLastKey(keys) == SomeKey(Last(keys))

\* get_keys_paged: the `Some(hash)` of the request.
KeysAt(hash) == hash

\* Mutant: the values are read at the remote's best block.
StorageAtBest(hash) == None

\* rpc_get_pairs_paged: the `Some(at)` of the request.
StorageAt(hash) == hash

\* Mutant: every mode takes the online arm.
IsOnlineAlways(m) == TRUE

\* pre_build: `match self.mode.clone()`, the Mode::Online arm.
IsOnline(m) == m.kind = "Online"

\* Mutant: the head is resolved when `at` is set, not when it is missing.
NeedsHeadInverted(m) == m.at # None

\* Mutant: the head is never resolved.
NeedsHeadNever(m) == FALSE

\* Mutant: the head is always resolved.
NeedsHeadAlways(m) == TRUE

\* init_remote_client: `at` is only resolved when it is not set.
NeedsHead(m) == m.at = None

\* Mutant: the snapshot is taken after the injection.
SnapshotDataInjected(kp, injected) == kp \o injected

\* pre_build: the `&kp` handed to save_state_snapshot.
SnapshotData(kp, injected) == kp

\* Mutant: a module named again is scraped once.
RECURSIVE PrefixesOnce(_)
PrefixesOnce(modules) ==
    IF Len(modules) = 0 THEN << <<>> >>
    ELSE IF Len(modules) = 1 THEN <<Twox128(modules[1])>>
    ELSE LET front == SubSeq(modules, 1, Len(modules) - 1)
         IN  IF Last(modules) \in Range(front) THEN PrefixesOnce(front)
             ELSE Append(PrefixesOnce(front), Twox128(Last(modules)))

\* load_remote: one prefix per module, or the empty prefix for everything.
Prefixes(modules) ==
    IF Len(modules) > 0
    THEN [i \in DOMAIN modules |-> Twox128(modules[i])]
    ELSE << <<>> >>

\* Mutant: load_remote returns after its first module.
MoreScopesNever(s, modules) == FALSE

\* load_remote: `for f in config.modules.iter()` has another module to
\* scrape after the s-th scope.
MoreScopes(s, modules) == s < Len(Prefixes(modules))

\* Mutant: the injected pairs come first.
OverlayUnder(base, extra) == extra \o base

\* pre_build: `base_kv.extend(self.inject.clone())`
Overlay(base, extra) == base \o extra

\* TestExternalities::new_empty and TestExternalities::insert
NewEmpty == [k \in {} |-> <<>>]

\* Result<TestExternalities, _> before build returned Ok: no externalities.
NoExt == [built |-> FALSE, kv |-> NewEmpty]
Ext(e) == [built |-> TRUE, kv |-> e]

ExtInsert(e, k, v) == [x \in DOMAIN e \cup {k} |-> IF x = k THEN v ELSE e[x]]

\* build: `for (k, v) in kv { ext.insert(k, v) }`
RECURSIVE InsertAll(_, _)
InsertAll(e, kv) ==
    IF kv = <<>> THEN e
    ELSE InsertAll(ExtInsert(e, kv[1][1], kv[1][2]), Tail(kv))

\* What a failed fs::write may leave at the path: the old content, an empty
\* file, or the first bytes of the new content.
WriteFailureLeaves(old, bytes) ==
    {old, File(<<>>), File(Truncated(bytes))}

\* An entry of the log.
Event(op, prefix, start_key, hash, ok) ==
    [op |-> op, prefix |-> prefix, start_key |-> start_key, hash |-> hash, ok |-> ok]

OnlineConfig(a, snap, mods) ==
    [kind |-> "Online", at |-> a, state_snapshot |-> snap, modules |-> mods]

OfflineConfig ==
    [kind |-> "Offline", at |-> None, state_snapshot |-> TRUE, modules |-> <<>>]

Modes ==
    {OnlineConfig(a, snap, mods) :
        a \in Hashes \cup {None}, snap \in BOOLEAN,
        mods \in SeqsUpTo(ModuleNames, MaxModules)}
    \cup {OfflineConfig}

-----------------------------------------------------------------------------
(* The builder *)

\* Builder::default: Mode::Online(OnlineConfig::default()), nothing injected.
DefaultMode == OnlineConfig(None, FALSE, <<>>)

Init ==
    /\ pc = "config"
    /\ mode = DefaultMode
    /\ inject = <<>>
    /\ client = FALSE
    /\ config = DefaultMode
    /\ remote \in Remotes
    /\ fs \in Files
    /\ fs0 = fs
    /\ scope = 0
    /\ at = None
    /\ last_key = NoKey
    /\ all_keys = <<>>
    /\ pages = 0
    /\ fetched = 0
    /\ key_values = <<>>
    /\ filtered_kv = <<>>
    /\ scope_kv = <<>>
    /\ base_kv = <<>>
    /\ ext = NoExt
    /\ result = None
    /\ enums = <<>>
    /\ log = <<>>

builderVars == <<mode, inject, client, config>>
envVars == <<remote, fs, fs0>>
pagingVars == <<last_key, all_keys, pages>>
fetchVars == <<fetched, key_values>>
scopeVars == <<scope, at, filtered_kv, scope_kv>>
outVars == <<base_kv, ext>>

\* Builder::inject: pushes every given pair.
Inject(injections) ==
    /\ pc = "config"
    /\ Len(inject) + Len(injections) <= MaxInject
    /\ inject' = inject \o injections
    /\ UNCHANGED <<pc, mode, client, config, envVars, scopeVars, pagingVars,
                   fetchVars, outVars, result, enums, log>>

\* Builder::mode: replaces the mode (and with it the transport).
SetMode(m) ==
    /\ pc = "config"
    /\ mode' = m
    /\ client' = FALSE
    /\ UNCHANGED <<pc, inject, config, envVars, scopeVars, pagingVars,
                   fetchVars, outVars, result, enums, log>>

\* Mutant: the error is reported, but what was retrieved so far is inserted.
FailWithPartial(msg, lg) ==
    /\ pc' = "done"
    /\ result' = msg
    /\ log' = lg
    /\ base_kv' = filtered_kv
    /\ ext' = Ext(InsertAll(NewEmpty, filtered_kv))

\* A `?` that returns the error out of pre_build and build.
Fail(msg, lg) ==
    /\ pc' = "done"
    /\ result' = msg
    /\ log' = lg
    /\ UNCHANGED outVars

\* Mutant: what was fetched before the failure is written to the snapshot.
LoadRemoteErrorSavesPartial(msg, lg) ==
    /\ Fail(msg, lg)
    /\ fs' = IF config.state_snapshot THEN File(Encode(filtered_kv \o key_values)) ELSE fs

\* pre_build: the `?` on load_remote returns before save_state_snapshot.
LoadRemoteError(msg, lg) ==
    /\ Fail(msg, lg)
    /\ fs' = fs

\* pre_build from `base_kv.extend(..)` on, and build's insertion loop.
Finish(kp, lg) ==
    LET kv == Overlay(kp, inject)
    IN  /\ base_kv' = kv
        /\ ext' = Ext(InsertAll(NewEmpty, kv))
        /\ result' = "Ok"
        /\ pc' = "done"
        /\ log' = lg \o << Event("extend", <<>>, NoKey, None, TRUE),
                           Event("insert", <<>>, NoKey, None, TRUE) >>

\* pre_build, Mode::Offline: load_state_snapshot, then the rest of build.
BuildOffline(readable) ==
    /\ pc = "config"
    /\ ~IsOnline(mode)
    /\ config' = mode
    /\ fs0' = fs
    /\ LET lg == Append(log, Event("fs_read", <<>>, NoKey, None, fs.exists /\ readable))
       IN  IF ~fs.exists \/ ~readable THEN Fail("fs::read failed.", lg)
           ELSE IF ~Decode(fs.bytes).ok THEN Fail("decode failed", lg)
           ELSE Finish(Decode(fs.bytes).val, lg)
    /\ UNCHANGED <<mode, inject, client, remote, fs, scopeVars, pagingVars,
                   fetchVars, enums>>

\* Mutant: the accessors hand out a config in any mode.
AsOnlinePanicsNever(m) == FALSE

\* as_online / as_online_mut: any other mode panics.
AsOnlinePanics(m) == m.kind # "Online"

\* OnlineConfig::rpc_client: `expect` on the ws client.
RpcClientPanics(c) == ~c

UnexpectedMode == "panic: Unexpected mode: Online"
NoWsClient == "panic: ws client must have been initialized by now; qed."
NoAt == "panic: online config must be initialized by this point; qed."
NoLastKey == "panic: all_keys is populated; has .last(); qed"

\* self.as_online().rpc_client(): the panic it ends in, if any.
ClientPanic(m, c) ==
    IF AsOnlinePanics(m) THEN UnexpectedMode
    ELSE IF RpcClientPanics(c) THEN NoWsClient
    ELSE None

\* A panic unwinds out of build: nothing is returned, nothing more is done.
Panic(msg) ==
    /\ pc' = "done"
    /\ result' = msg
    /\ UNCHANGED <<log, outVars>>

\* load_remote up to its first request: reads `at`, starts the first scope.
StartLoadRemote(a, lg) ==
    IF AsOnlinePanics(mode)
    THEN /\ Fail(UnexpectedMode, lg)
         /\ UNCHANGED <<scopeVars, pagingVars, fetchVars>>
    ELSE IF a = None
    THEN /\ Fail(NoAt, lg)
         /\ UNCHANGED <<scopeVars, pagingVars, fetchVars>>
    ELSE /\ at' = a
         /\ scope' = 1
         /\ filtered_kv' = <<>>
         /\ scope_kv' = <<>>
         /\ last_key' = NoKey
         /\ all_keys' = <<>>
         /\ pages' = 0
         /\ pc' = "get_keys_paged"
         /\ log' = lg
         /\ UNCHANGED <<fetchVars, outVars, result>>

\* init_remote_client up to its first rpc, then load_remote as pre_build
\* calls it.
InitRemoteClient(ok) ==
    /\ config' = mode
    /\ fs0' = fs
    /\ LET lg == Append(log, Event("ws_connect", <<>>, NoKey, None, ok))
       IN  IF AsOnlinePanics(mode)
           THEN /\ Panic(UnexpectedMode)
                /\ UNCHANGED <<client, scopeVars, pagingVars, fetchVars>>
           ELSE IF ~ok
           THEN /\ Fail("failed to build ws client", lg)
                /\ UNCHANGED <<client, scopeVars, pagingVars, fetchVars>>
           ELSE /\ client' = TRUE
                /\ IF NeedsHead(mode)
                   THEN /\ pc' = "rpc_get_head"
                        /\ log' = lg
                        /\ UNCHANGED <<scopeVars, pagingVars, fetchVars, outVars, result>>
                   ELSE StartLoadRemote(mode.at, lg)
    /\ UNCHANGED <<mode, inject, remote, fs, enums>>

\* pre_build, Mode::Online: init_remote_client builds the ws client.
BuildOnline(ok) ==
    /\ pc = "config"
    /\ IsOnline(mode)
    /\ InitRemoteClient(ok)

\* init_remote_client: rpc_get_head, the remote answers with head.
RpcGetHead(ok, head) ==
    /\ pc = "rpc_get_head"
    /\ LET lg == Append(log, Event("finalized_head", <<>>, NoKey,
                                    IF ok THEN head ELSE None, ok))
       IN  IF ClientPanic(mode, client) # None
           THEN /\ Panic(ClientPanic(mode, client))
                /\ UNCHANGED <<mode, scopeVars, pagingVars, fetchVars>>
           ELSE IF ~ok
           THEN /\ Fail("rpc finalized_head failed.", lg)
                /\ UNCHANGED <<mode, scopeVars, pagingVars, fetchVars>>
           ELSE /\ mode' = [mode EXCEPT !.at = head]
                /\ StartLoadRemote(head, lg)
    /\ UNCHANGED <<inject, client, config, envVars, enums>>

\* pre_build after load_remote returned kp, when no snapshot is written.
AfterLoadRemote(kp, lg) ==
    IF config.state_snapshot
    THEN /\ pc' = "save_state_snapshot"
         /\ log' = lg
         /\ UNCHANGED <<outVars, result>>
    ELSE Finish(kp, lg)

\* rpc_get_pairs_paged returns kv to load_remote, which goes on with the next
\* module or returns.
EndScope(kv, lg) ==
    LET acc == filtered_kv \o kv
    IN  /\ filtered_kv' = acc
        /\ scope_kv' = Append(scope_kv, kv)
        /\ at' = at
        /\ last_key' = NoKey
        /\ all_keys' = <<>>
        /\ pages' = 0
        /\ fetched' = 0
        /\ key_values' = <<>>
        /\ IF MoreScopes(scope, mode.modules)
           THEN /\ scope' = scope + 1
                /\ pc' = "get_keys_paged"
                /\ log' = lg
                /\ UNCHANGED <<outVars, result>>
           ELSE /\ scope' = scope
                /\ AfterLoadRemote(acc, lg)

\* get_keys_paged: one turn of the loop.
GetKeysPaged(ok) ==
    /\ pc = "get_keys_paged"
    /\ LET prefix == Prefixes(mode.modules)[scope]
           lg == Append(log, Event("get_keys_paged", prefix, last_key, KeysAt(at), ok))
           page == RemoteKeysPaged(prefix, PAGE, last_key, KeysAt(at))
           keys == all_keys \o page
       IN  IF ClientPanic(mode, client) # None
           THEN /\ Panic(ClientPanic(mode, client))
                /\ UNCHANGED <<fs, scopeVars, pagingVars, fetchVars, enums>>
           ELSE IF ~ok
           THEN /\ LoadRemoteError("rpc get_keys failed", lg)
                /\ UNCHANGED <<scopeVars, pagingVars, fetchVars, enums>>
           ELSE IF ~IsLastPage(Len(page)) /\ keys = <<>>
           THEN /\ Panic(NoLastKey)
                /\ UNCHANGED <<fs, scopeVars, pagingVars, fetchVars, enums>>
           ELSE IF ~IsLastPage(Len(page))
           THEN /\ fs' = fs
                /\ all_keys' = keys
                /\ last_key' = NewLastKey(keys)
                /\ pages' = pages + 1
                /\ pc' = pc
                /\ log' = lg
                /\ UNCHANGED <<scopeVars, fetchVars, outVars, result, enums>>
           ELSE /\ fs' = fs
                /\ enums' = Append(enums, [prefix |-> prefix, hash |-> at,
                                           keys |-> keys, pages |-> pages + 1])
                /\ IF keys = <<>>
                   THEN EndScope(<<>>, lg)
                   ELSE /\ all_keys' = keys
                        /\ pages' = pages + 1
                        /\ fetched' = 0
                        /\ key_values' = <<>>
                        /\ pc' = "get_storage"
                        /\ log' = lg
                        /\ UNCHANGED <<scopeVars, last_key, outVars, result>>
    /\ UNCHANGED <<builderVars, remote, fs0>>

\* Mutant: an empty value is taken for a failed fetch.
StorageFetchedNonEmpty(ok, value) == ok /\ value.ok /\ value.val # <<>>

\* rpc_get_pairs_paged: the `?` on get_storage passes every Ok(value) on.
StorageFetched(ok, value) == ok /\ value.ok

\* Mutant: the keys are fetched from the last one back.
NextKeyReversed(keys, n) == keys[Len(keys) - n]

\* rpc_get_pairs_paged: `for key in keys`, n keys being done.
NextKey(keys, n) == keys[n + 1]

\* rpc_get_pairs_paged: one turn of the `for key in keys` loop.
GetStorage(ok) ==
    /\ pc = "get_storage"
    /\ LET key == NextKey(all_keys, fetched)
           value == RemoteGetStorage(key, StorageAt(at))
           lg == Append(log, Event("get_storage", key, NoKey, StorageAt(at), ok /\ value.ok))
           kv == Append(key_values, <<key, value.val>>)
       IN  IF ClientPanic(mode, client) # None
           THEN /\ Panic(ClientPanic(mode, client))
                /\ UNCHANGED <<fs, scopeVars, pagingVars, fetchVars>>
           ELSE IF ~StorageFetched(ok, value)
           THEN /\ LoadRemoteError("rpc get_storage failed", lg)
                /\ UNCHANGED <<scopeVars, pagingVars, fetchVars>>
           ELSE IF fetched + 1 < Len(all_keys)
           THEN /\ fs' = fs
                /\ fetched' = fetched + 1
                /\ key_values' = kv
                /\ pc' = pc
                /\ log' = lg
                /\ UNCHANGED <<scopeVars, pagingVars, outVars, result>>
           ELSE /\ fs' = fs
                /\ EndScope(kv, lg)
    /\ UNCHANGED <<builderVars, remote, fs0, enums>>

\* Mutant: the build goes on after a failed write.
SaveStateSnapshotIgnoringError(ok) ==
    /\ pc = "save_state_snapshot"
    /\ LET bytes == Encode(SnapshotData(filtered_kv, inject))
           lg == Append(log, Event("fs_write", <<>>, NoKey, None, ok))
       IN  /\ fs' \in IF ok THEN {File(bytes)} ELSE WriteFailureLeaves(fs, bytes)
           /\ Finish(filtered_kv, lg)
    /\ UNCHANGED <<builderVars, remote, fs0, scopeVars, pagingVars, fetchVars, enums>>

\* pre_build: save_state_snapshot, then the rest of build.
SaveStateSnapshot(ok) ==
    /\ pc = "save_state_snapshot"
    /\ LET bytes == Encode(SnapshotData(filtered_kv, inject))
           lg == Append(log, Event("fs_write", <<>>, NoKey, None, ok))
       IN  IF ok
           THEN /\ fs' = File(bytes)
                /\ Finish(filtered_kv, lg)
           ELSE /\ fs' \in WriteFailureLeaves(fs, bytes)
                /\ Fail("fs::write failed.", lg)
    /\ UNCHANGED <<builderVars, remote, fs0, scopeVars, pagingVars, fetchVars, enums>>

Next ==
    \/ \E injections \in SeqsUpTo(InjectPairs, MaxInject) \ {<<>>} : Inject(injections)
    \/ \E m \in Modes : SetMode(m)
    \/ \E readable \in BOOLEAN : BuildOffline(readable)
    \/ \E ok \in BOOLEAN : BuildOnline(ok)
    \/ \E ok \in BOOLEAN, head \in Hashes : RpcGetHead(ok, head)
    \/ \E ok \in BOOLEAN : GetKeysPaged(ok)
    \/ \E ok \in BOOLEAN : GetStorage(ok)
    \/ \E ok \in BOOLEAN : SaveStateSnapshot(ok)

Spec == Init /\ [][Next]_vars

-----------------------------------------------------------------------------
(* Vocabulary of the properties *)

TransportOps == {"ws_connect", "finalized_head", "get_keys_paged", "get_storage"}
FetchOps == {"get_keys_paged", "get_storage"}

\* The positions of the log holding an event of one of the ops.
Positions(ops) == {i \in DOMAIN log : log[i].op \in ops}

Building == pc # "config"
Online == Building /\ config.kind = "Online"
Offline == Building /\ config.kind = "Offline"
Succeeded == pc = "done" /\ result = "Ok"
Failed == pc = "done" /\ result # "Ok"

\* The keys the remote holds under a prefix at a reference point.
KeysUnder(prefix, hash) == {k \in DOMAIN remote[hash] : StartsWith(k, prefix)}

StrictlyIncreasing(keys) ==
    \A i \in DOMAIN keys : \A j \in DOMAIN keys : i < j => LexLess(keys[i], keys[j])

\* The reference point of the session: the configured one, else the one the
\* remote returned for finalized_head.
HeadReturned == {log[i].hash : i \in {j \in Positions({"finalized_head"}) : log[j].ok}}

ReferencePoints == IF config.at # None THEN {config.at} ELSE HeadReturned

-----------------------------------------------------------------------------
(* C1: pagination completeness.  Every finished get_keys_paged returned          *)
(* exactly the keys the remote holds under the prefix at the reference point,    *)
(* each once, in lexicographic order, and cost ceil((N+1)/PAGE) page requests.   *)
C1_PaginationComplete ==
    \A i \in DOMAIN enums :
        LET e == enums[i]
            N == Cardinality(KeysUnder(e.prefix, e.hash))
        IN  /\ Range(e.keys) = KeysUnder(e.prefix, e.hash)
            /\ Len(e.keys) = N
            /\ StrictlyIncreasing(e.keys)
            /\ e.pages = (N + PAGE) \div PAGE

\* An enumeration of exactly PAGE keys took a second, empty page to end, and a
\* later one of more than PAGE keys ended on its second, short page.
C1_Witness ==
    /\ Len(enums) = 2
    /\ Len(enums[1].keys) = PAGE
    /\ enums[1].pages = 2
    /\ Len(enums[2].keys) > PAGE
    /\ enums[2].pages = 2

(* C2: failure propagation.  Once a transport step of an online build has        *)
(* failed, nothing follows it: build has returned an error, no externalities     *)
(* were built and nothing was inserted, whatever had been fetched before.        *)
C2_FailurePropagates ==
    \A i \in Positions(TransportOps) :
        ~log[i].ok =>
            /\ i = Len(log)
            /\ Failed
            /\ result # None
            /\ ~ext.built
            /\ base_kv = <<>>
            /\ Positions({"insert"}) = {}

\* A get_storage of the second module failed after the first module had been
\* retrieved with pairs in it.
C2_Witness ==
    /\ Failed
    /\ log # <<>>
    /\ Last(log).op = "get_storage"
    /\ ~Last(log).ok
    /\ scope = 2
    /\ filtered_kv # <<>>

(* C3: reference-point pinning.  Every get_keys_paged and get_storage request    *)
(* of a session carries the same reference point: the configured `at`, or else   *)
(* the identifier finalized_head returned; the builder's `at` stays that one     *)
(* from the first request on.                                                    *)
C3_ReferencePointPinned ==
    Positions(FetchOps) # {} =>
        /\ Cardinality(ReferencePoints) = 1
        /\ \A i \in Positions(FetchOps) : log[i].hash \in ReferencePoints
        /\ at \in ReferencePoints
        /\ mode.at \in ReferencePoints

\* A session over two modules without a configured `at` issued page requests for
\* both prefixes and value requests, all at the head the remote returned.
C3_Witness ==
    /\ Succeeded
    /\ config.at = None
    /\ HeadReturned = {"h1"}
    /\ Cardinality({log[i].prefix : i \in Positions({"get_keys_paged"})}) = 2
    /\ Cardinality(Positions({"get_storage"})) >= 3

(* C4: head resolution ordering.  In an online build without a configured `at`   *)
(* the client is initialised first, the finalized_head request comes right       *)
(* after it, is the only one of the session, and has succeeded before any        *)
(* get_keys_paged or get_storage request is issued.                              *)
C4_HeadResolvedFirst ==
    (Online /\ config.at = None) =>
        /\ log # <<>>
        /\ log[1].op = "ws_connect"
        /\ (log[1].ok /\ Len(log) = 1) => pc = "rpc_get_head"
        /\ Len(log) >= 2 => (log[1].ok /\ log[2].op = "finalized_head")
        /\ Positions({"finalized_head"}) \subseteq {2}
        /\ Positions(FetchOps) # {} => log[2].ok
        /\ \A i \in Positions(FetchOps) : i > 2

\* The head was resolved and both kinds of request followed it.
C4_Witness ==
    /\ Online
    /\ config.at = None
    /\ Positions({"finalized_head"}) = {2}
    /\ Positions({"get_keys_paged"}) # {}
    /\ Positions({"get_storage"}) # {}

(* C5: finalized_head is requested only when no reference point is configured:   *)
(* never in an online build whose configuration sets `at`, never in an offline   *)
(* build.                                                                        *)
C5_NoHeadWhenAtConfigured ==
    (Building /\ (config.kind = "Offline" \/ config.at # None)) =>
        Positions({"finalized_head"}) = {}

\* An online build with `at` configured ran to the end and retrieved pairs.
C5_Witness ==
    /\ Online
    /\ config.at = "h2"
    /\ Succeeded
    /\ Positions({"get_storage"}) # {}
    /\ log[1].op = "ws_connect"

(* C6: phase ordering.  The snapshot is written only after every request of      *)
(* every scope has succeeded; the injected pairs are appended after retrieval    *)
(* or loading and after the snapshot write; the sink is filled after that; and   *)
(* no transport request follows the write or the injection.                      *)
C6_PhaseOrder ==
    /\ \A w \in Positions({"fs_write"}) :
          /\ \A i \in Positions(TransportOps) : i < w /\ log[i].ok
          /\ Len(scope_kv) = Len(Prefixes(config.modules))
          /\ Len(enums) = Len(Prefixes(config.modules))
          /\ pc = "done"
    /\ \A x \in Positions({"extend"}) :
          /\ \A i \in Positions(TransportOps \cup {"fs_write", "fs_read"}) :
                i < x /\ log[i].ok
          /\ Online => Len(scope_kv) = Len(Prefixes(config.modules))
          /\ (Online /\ config.state_snapshot) => Positions({"fs_write"}) # {}
          /\ Offline => Positions({"fs_read"}) # {}
          /\ Positions({"insert"}) = {x + 1}
    /\ \A n \in Positions({"insert"}) : n = Len(log) /\ n - 1 \in Positions({"extend"})
    /\ ext.built => Positions({"insert"}) # {}
    /\ base_kv # <<>> => Positions({"extend"}) # {}

\* A build over two modules wrote its snapshot, injected and filled the sink.
C6_Witness ==
    /\ Succeeded
    /\ Len(config.modules) = 2
    /\ Positions({"fs_write"}) # {}
    /\ Positions({"get_storage"}) # {}
    /\ inject # <<>>
    /\ ext.built

-----------------------------------------------------------------------------
(* What a session is expected to retrieve, told from the remote's content *)

\* The elements of a set of keys in lexicographic order.
RECURSIVE InOrder(_)
InOrder(S) ==
    IF S = {} THEN <<>>
    ELSE LET first == CHOOSE k \in S : \A j \in S : ~LexLess(j, k)
         IN  <<first>> \o InOrder(S \ {first})

PairsUnder(prefix, hash) ==
    LET keys == InOrder(KeysUnder(prefix, hash))
    IN  [i \in DOMAIN keys |-> <<keys[i], remote[hash][keys[i]]>>]

RECURSIVE Flatten(_)
Flatten(seqs) == IF seqs = <<>> THEN <<>> ELSE Head(seqs) \o Flatten(Tail(seqs))

ReferencePoint == CHOOSE h \in ReferencePoints : TRUE

\* One scope per entry of the module list; the whole keyspace for an empty list.
ExpectedScopes ==
    IF config.modules = <<>> THEN << PairsUnder(<<>>, ReferencePoint) >>
    ELSE [i \in DOMAIN config.modules |->
            PairsUnder(Twox128(config.modules[i]), ReferencePoint)]

KeysOf(seq) == {seq[i][1] : i \in DOMAIN seq}

\* The value of the last pair of seq that has key k.
LastValue(seq, k) ==
    LET last == CHOOSE i \in DOMAIN seq :
                    /\ seq[i][1] = k
                    /\ \A j \in DOMAIN seq : seq[j][1] = k => j <= i
    IN  seq[last][2]

\* The pairs the build started from: retrieved online, loaded offline.
Base == IF config.kind = "Online" THEN filtered_kv ELSE Decode(fs0.bytes).val

(* C7: the snapshot holds the pre-injection set.  After a successful online      *)
(* build with an output snapshot the file decodes to exactly the retrieved       *)
(* sequence, all scopes in order, without the injection list, which is appended  *)
(* only to the sequence handed to the sink.                                      *)
C7_SnapshotIsPreInjection ==
    (Succeeded /\ Online /\ config.state_snapshot) =>
        /\ fs.exists
        /\ fs.bytes = Encode(Flatten(ExpectedScopes))
        /\ Decode(fs.bytes).ok
        /\ Decode(fs.bytes).val = Flatten(ExpectedScopes)
        /\ Len(Decode(fs.bytes).val) = Len(base_kv) - Len(inject)
        /\ base_kv = Decode(fs.bytes).val \o inject

\* A snapshot of retrieved pairs was written by a build that also injected.
C7_Witness ==
    /\ Succeeded
    /\ Online
    /\ config.state_snapshot
    /\ Len(inject) = 2
    /\ Len(config.modules) = 2
    /\ Len(filtered_kv) >= 3
    /\ fs # fs0

(* C8: last write wins.  After a successful build the sink holds, for every key  *)
(* of base ++ injected, the value of the last pair with that key: the last       *)
(* injected value for an injected key, the last base value for any other.        *)
C8_LastWriteWins ==
    Succeeded =>
        /\ ext.built
        /\ DOMAIN ext.kv = KeysOf(Base) \cup KeysOf(inject)
        /\ \A k \in DOMAIN ext.kv : ext.kv[k] = LastValue(Base \o inject, k)
        /\ \A k \in KeysOf(inject) : ext.kv[k] = LastValue(inject, k)
        /\ \A k \in KeysOf(Base) \ KeysOf(inject) : ext.kv[k] = LastValue(Base, k)

\* A key of the base was injected twice: the sink holds the second injected
\* value for it, and the base value for another key.
C8_Witness ==
    /\ Succeeded
    /\ Online
    /\ inject = << <<<<1>>, <<11>>>>, <<<<1>>, <<9>>>> >>
    /\ <<1>> \in KeysOf(Base)
    /\ LastValue(Base, <<1>>) = <<11>>
    /\ ext.kv[<<1>>] = <<9>>
    /\ <<2>> \in KeysOf(Base)
    /\ ext.kv[<<2>>] = <<11>>

(* C9: module filtering.  What load_remote returns is the concatenation, in      *)
(* module-list order, of what the remote holds under hash(m1), ..., hash(mn),    *)
(* one scope per entry and nothing dropped as a duplicate; an empty module list  *)
(* gives one scope, the empty prefix, which covers every key.                    *)
C9_ModuleFiltering ==
    /\ (Online /\ scope_kv # <<>>) =>
          /\ Len(scope_kv) <= Len(ExpectedScopes)
          /\ \A i \in DOMAIN scope_kv : scope_kv[i] = ExpectedScopes[i]
    /\ (Online /\ (pc = "save_state_snapshot" \/ Succeeded)) =>
          /\ scope_kv = ExpectedScopes
          /\ filtered_kv = Flatten(ExpectedScopes)
          /\ Len(enums) = Len(ExpectedScopes)
          /\ config.modules = <<>> =>
                /\ enums[1].prefix = <<>>
                /\ KeysOf(filtered_kv) = DOMAIN remote[ReferencePoint]

\* A module named twice was scraped twice: its pairs appear twice.
C9_Witness ==
    /\ Succeeded
    /\ config.modules = <<"A", "A">>
    /\ Len(scope_kv) = 2
    /\ Len(scope_kv[1]) = 3
    /\ filtered_kv = scope_kv[1] \o scope_kv[1]

(* C10: the offline path touches no network.  An offline build never sets up a   *)
(* client and issues no request; it reads the snapshot file, leaves it as it     *)
(* was, and on success the sink holds the snapshot's pairs overlaid with the     *)
(* injection list.                                                               *)
C10_OfflineNoNetwork ==
    Offline =>
        /\ ~client
        /\ Positions(TransportOps \cup {"fs_write"}) = {}
        /\ Positions({"fs_read"}) = {1}
        /\ fs = fs0
        /\ Succeeded =>
              /\ fs0.exists
              /\ Decode(fs0.bytes).ok
              /\ base_kv = Decode(fs0.bytes).val \o inject
              /\ ext.kv = InsertAll(InsertAll(NewEmpty, Decode(fs0.bytes).val), inject)
              /\ inject = <<>> =>
                    /\ DOMAIN ext.kv = KeysOf(Decode(fs0.bytes).val)
                    /\ \A k \in DOMAIN ext.kv :
                          ext.kv[k] = LastValue(Decode(fs0.bytes).val, k)

\* The snapshot [(0x01, 0xAA), (0x02, 0xBB)] was loaded without injections and
\* the sink holds exactly those two pairs.
C10_Witness ==
    /\ Offline
    /\ Succeeded
    /\ inject = <<>>
    /\ DOMAIN ext.kv = {<<1>>, <<2>>}
    /\ ext.kv[<<1>>] = <<170>>
    /\ ext.kv[<<2>>] = <<187>>


\* The bytes are the encoding of a key-value sequence, and of nothing more.
WellFormed(bytes) == Decode(bytes).ok /\ Encode(Decode(bytes).val) = bytes

(* C11: an offline load failure is a hard failure.  An offline build whose       *)
(* snapshot file is missing, cannot be read, or does not hold the encoding of a  *)
(* key-value sequence returns an error: no sink, and the injection list is not   *)
(* applied on its own.                                                           *)
C11_OfflineLoadFailureIsHard ==
    (Offline /\ pc = "done"
        /\ (~fs0.exists \/ ~log[1].ok \/ ~WellFormed(fs0.bytes))) =>
        /\ Failed
        /\ ~ext.built
        /\ base_kv = <<>>
        /\ Positions({"extend", "insert"}) = {}


-----------------------------------------------------------------------------
(* C12: no partial snapshot on retrieval failure.  In an online build with an    *)
(* output snapshot path, once a transport step has failed the snapshot file      *)
(* holds what it held before the build and no write was attempted, whatever      *)
(* had been fetched before the failure.                                          *)
C12_NoPartialSnapshot ==
    (Online /\ config.state_snapshot
        /\ \E i \in Positions(TransportOps) : ~log[i].ok) =>
        /\ fs = fs0
        /\ Positions({"fs_write"}) = {}

\* A later module fails after an earlier module was retrieved in full.
C12_Witness ==
    /\ Online /\ config.state_snapshot /\ Failed
    /\ Len(scope_kv) >= 1 /\ scope_kv[1] # <<>>
    /\ ~log[Len(log)].ok /\ log[Len(log)].op \in FetchOps
    /\ fs = fs0


-----------------------------------------------------------------------------
(* C13: a snapshot write failure is a hard failure.  In an online build with an  *)
(* output snapshot path, when the write of the file fails after a retrieval      *)
(* that succeeded in full, build returns the write error: the retrieved pairs    *)
(* are not returned, the injection list is not applied and nothing is inserted   *)
(* into a sink.                                                                  *)
C13_WriteFailureIsHard ==
    (\E i \in Positions({"fs_write"}) : ~log[i].ok) =>
        /\ Online /\ config.state_snapshot
        /\ Failed /\ result = "fs::write failed."
        /\ ~ext.built
        /\ base_kv = <<>>
        /\ Positions({"extend", "insert"}) = {}
        /\ \A j \in Positions(TransportOps) : log[j].ok

\* The write fails after pairs were retrieved, with injections waiting.
C13_Witness ==
    /\ Failed /\ result = "fs::write failed."
    /\ filtered_kv # <<>> /\ inject # <<>>
    /\ ~log[Len(log)].ok /\ log[Len(log)].op = "fs_write"
    /\ ~ext.built


-----------------------------------------------------------------------------
(* The snapshot codec on its own: save_state_snapshot on any bounded sequence   *)
(* of pairs, then an offline build of a second builder from the file written.   *)

MaxPairs == 2

CodecKeys == {<<>>, <<1>>, <<1, 2>>}
CodecValues == {<<>>, <<170>>}
CodecPairs == {<<k, v>> : k \in CodecKeys, v \in CodecValues}

\* pre_build at the call of save_state_snapshot, load_remote having returned
\* any sequence of at most MaxPairs pairs.
InitCodec ==
    /\ pc = "save_state_snapshot"
    /\ mode = OnlineConfig("h1", TRUE, <<>>)
    /\ config = mode
    /\ inject \in SeqsUpTo(InjectPairs, 1)
    /\ client = TRUE
    /\ remote \in Remotes
    /\ fs = NoFile
    /\ fs0 = fs
    /\ scope = 1
    /\ at = "h1"
    /\ last_key = NoKey
    /\ all_keys = <<>>
    /\ pages = 0
    /\ fetched = 0
    /\ key_values = <<>>
    /\ filtered_kv \in SeqsUpTo(CodecPairs, MaxPairs)
    /\ scope_kv = <<filtered_kv>>
    /\ base_kv = <<>>
    /\ ext = NoExt
    /\ result = None
    /\ enums = <<>>
    /\ log = <<>>

\* Builder::new().inject(..).mode(Mode::Offline(..)) on the path just written,
\* with the injection list of the online build.
NewOfflineBuilder ==
    /\ Succeeded /\ config.kind = "Online"
    /\ pc' = "config"
    /\ mode' = OfflineConfig
    /\ client' = FALSE
    /\ ext' = NoExt
    /\ result' = None
    /\ UNCHANGED <<inject, config, envVars, scopeVars, pagingVars, fetchVars,
                   base_kv, enums, log>>

NextCodec ==
    \/ \E ok \in BOOLEAN : SaveStateSnapshot(ok)
    \/ NewOfflineBuilder
    \/ \E readable \in BOOLEAN : BuildOffline(readable)

SpecCodec == InitCodec /\ [][NextCodec]_vars

\* The file was read by the offline build.
SnapshotRead == \E i \in Positions({"fs_read"}) : log[i].ok

(* C14: snapshot round trip.  For every sequence of key-value pairs (empty,     *)
(* with empty keys or values, with duplicate keys) the file written by           *)
(* save_state_snapshot decodes to exactly the sequence saved, and the offline    *)
(* build from that file hands the sink the sequence the online build handed it,  *)
(* for the same injection list.                                                  *)
C14_SnapshotRoundTrip ==
    /\ (Online /\ Succeeded) =>
        /\ fs.exists
        /\ Decode(fs.bytes).ok
        /\ Decode(fs.bytes).val = filtered_kv
        /\ Len(Decode(fs.bytes).val) = Len(filtered_kv)
        /\ base_kv = filtered_kv \o inject
    /\ (Offline /\ pc = "done" /\ SnapshotRead) =>
        /\ Succeeded
        /\ base_kv = filtered_kv \o inject
        /\ \A k \in KeysOf(base_kv) : ext.kv[k] = LastValue(base_kv, k)

\* The offline build finished on a snapshot of two pairs with the same key, an
\* empty key and an empty value.
C14_Witness ==
    /\ Offline /\ Succeeded
    /\ Len(filtered_kv) = 2
    /\ filtered_kv[1][1] = filtered_kv[2][1]
    /\ filtered_kv[1][2] # filtered_kv[2][2]
    /\ filtered_kv[1][1] = <<>> /\ filtered_kv[1][2] = <<>>
    /\ inject # <<>>


-----------------------------------------------------------------------------
\* The pairs fetched so far in the session, finished scopes first.
Fetched == filtered_kv \o key_values

\* The get_storage requests among the first i events that were answered.
Answered(i) == {j \in Positions({"get_storage"}) : j <= i /\ log[j].ok}

(* C15: an empty value is not an error.  A get_storage request that is answered  *)
(* with the empty value does not fail the build: the pair (key, empty value)     *)
(* stands in the output at the position of the request, the keys after it are    *)
(* fetched, and a build all of whose requests were answered succeeds.            *)
C15_EmptyValueIsNotAnError ==
    \A i \in Positions({"get_storage"}) :
        (log[i].ok /\ remote[log[i].hash][log[i].prefix] = <<>>) =>
            /\ Cardinality(Answered(i)) <= Len(Fetched)
            /\ Fetched[Cardinality(Answered(i))] = <<log[i].prefix, <<>>>>
            /\ i = Len(log) => ~Failed
            /\ (pc = "done" /\ \A j \in DOMAIN log : log[j].ok) =>
                /\ Succeeded
                /\ \A e \in DOMAIN enums : \A k \in Range(enums[e].keys) :
                       <<k, remote[enums[e].hash][k]>> \in Range(base_kv)

\* A build succeeded with an empty value fetched before other keys.
C15_Witness ==
    /\ Online /\ Succeeded
    /\ \E n \in DOMAIN filtered_kv :
           /\ filtered_kv[n][2] = <<>>
           /\ n < Len(filtered_kv)
           /\ filtered_kv[n + 1][2] # <<>>


-----------------------------------------------------------------------------
(* The crate-internal operations called on a builder directly, in whatever     *)
(* mode it is in, next to the public ones.                                      *)

\* init_remote_client (pub(crate)) called on the builder as configured.
CallInitRemoteClient(ok) ==
    /\ pc = "config"
    /\ InitRemoteClient(ok)

\* load_remote called on the builder as configured.
CallLoadRemote ==
    /\ pc = "config"
    /\ config' = mode
    /\ fs0' = fs
    /\ StartLoadRemote(mode.at, log)
    /\ UNCHANGED <<mode, inject, client, remote, fs, enums>>

\* rpc_get_head, get_keys_paged or rpc_get_pairs_paged called on the builder as
\* configured: self.as_online().rpc_client() comes before the request, and a
\* builder that was not built has no ws client.
CallRpcHelper ==
    /\ pc = "config"
    /\ ClientPanic(mode, client) # None
    /\ config' = mode
    /\ fs0' = fs
    /\ Panic(ClientPanic(mode, client))
    /\ UNCHANGED <<mode, inject, client, remote, fs, scopeVars, pagingVars,
                   fetchVars, enums>>

NextInternal ==
    \/ Next
    \/ \E ok \in BOOLEAN : CallInitRemoteClient(ok)
    \/ CallLoadRemote
    \/ CallRpcHelper

SpecInternal == Init /\ [][NextInternal]_vars

\* An online-only operation was called on an offline builder and is over.
OnlineOnlyOnOffline ==
    pc = "done" /\ config.kind = "Offline" /\ Positions({"fs_read"}) = {}

(* C16: mode mismatch fails fast.  An online-only operation called on a builder  *)
(* in Offline mode ends in the panic of as_online / as_online_mut, not in a      *)
(* value or an Err, before any transport request was issued and before any       *)
(* file was read or written.                                                     *)
C16_ModeMismatchFailsFast ==
    /\ OnlineOnlyOnOffline =>
        /\ result = UnexpectedMode
        /\ log = <<>>
        /\ fs = fs0
        /\ ~client
        /\ ~ext.built /\ base_kv = <<>>
    /\ result = UnexpectedMode => OnlineOnlyOnOffline

\* The operation panicked on an offline builder with a snapshot file in place.
C16_Witness ==
    /\ OnlineOnlyOnOffline
    /\ result = UnexpectedMode
    /\ fs.exists /\ Decode(fs.bytes).ok
    /\ inject # <<>>


-----------------------------------------------------------------------------
\* The page the remote returned for the get_keys_paged request at position i.
PageOf(i) == RemoteKeysPaged(log[i].prefix, PAGE, log[i].start_key, log[i].hash)

FullPage(i) ==
    log[i].op = "get_keys_paged" /\ log[i].ok /\ Len(PageOf(i)) = PAGE

ShortPage(i) ==
    log[i].op = "get_keys_paged" /\ log[i].ok /\ Len(PageOf(i)) < PAGE

(* C17: the continuation rule.  The first get_keys_paged request of an           *)
(* enumeration has no start_key; after a page of fewer than PAGE keys no         *)
(* further page of that enumeration is requested; after a page of exactly PAGE   *)
(* keys the next request is a get_keys_paged for the same prefix and reference   *)
(* point whose start_key is the last key of that page, so start_keys strictly    *)
(* increase.                                                                     *)
C17_ContinuationRule ==
    \A i \in Positions({"get_keys_paged"}) :
        LET page == PageOf(i)
            short == log[i].ok /\ Len(page) < PAGE
            full == log[i].ok /\ Len(page) = PAGE
        IN  /\ log[i].start_key.some =>
                   (i > 1 /\ log[i - 1].op = "get_keys_paged" /\ log[i - 1].ok)
            /\ (short /\ i < Len(log)) =>
                   ~(log[i + 1].op = "get_keys_paged" /\ log[i + 1].start_key.some)
            /\ (short /\ i = Len(log)) =>
                   (pc = "get_keys_paged" => last_key = NoKey)
            /\ (full /\ i < Len(log)) =>
                   /\ log[i + 1].op = "get_keys_paged"
                   /\ log[i + 1].prefix = log[i].prefix
                   /\ log[i + 1].hash = log[i].hash
                   /\ log[i + 1].start_key = SomeKey(Last(page))
                   /\ log[i].start_key.some =>
                          LexLess(log[i].start_key.key, log[i + 1].start_key.key)
            /\ (full /\ i = Len(log)) =>
                   /\ pc = "get_keys_paged"
                   /\ last_key = SomeKey(Last(page))
                   /\ Last(all_keys) = Last(page)

\* Two full pages were followed by a short one, and the build went on.
C17_Witness ==
    \E i \in Positions({"get_keys_paged"}) :
        /\ i + 3 <= Len(log)
        /\ ~log[i].start_key.some
        /\ FullPage(i) /\ FullPage(i + 1) /\ ShortPage(i + 2)
        /\ log[i + 2].start_key.some
        /\ log[i + 3].op = "get_storage"


-----------------------------------------------------------------------------
\* The page request at position j was the last one of its enumeration: it was
\* answered and the request after it is not a continuation.
EndsEnumeration(j) ==
    /\ log[j].op = "get_keys_paged" /\ log[j].ok
    /\ ~(log[j + 1].op = "get_keys_paged" /\ log[j + 1].start_key.some)

\* The enumerations that were over before the event at position i.
EnumsBefore(i) == {j \in 1..(i - 1) : EndsEnumeration(j)}

\* The greatest of a set of positions.
Latest(S) == CHOOSE j \in S : \A k \in S : k <= j

(* C18: enumerate-then-fetch sequencing.  Within a scope every get_storage       *)
(* request comes after the last page of the scope's enumeration has returned,    *)
(* the get_storage requests follow one another, one per enumerated key in the    *)
(* order of enumeration; a get_keys_paged request after a get_storage starts     *)
(* the next scope, once every key of the scope was fetched; and the pairs of a   *)
(* scope are in the order of its keys.                                           *)
C18_EnumerateThenFetch ==
    /\ \A i \in Positions({"get_storage"}) :
           LET before == EnumsBefore(i)
           IN  /\ before # {}
               /\ LET e == Cardinality(before)
                      last_page == Latest(before)
                      n == i - last_page
                  IN  /\ \A j \in (last_page + 1)..(i - 1) :
                             log[j].op = "get_storage" /\ log[j].ok
                      /\ e \in DOMAIN enums
                      /\ n <= Len(enums[e].keys)
                      /\ log[i].prefix = enums[e].keys[n]
                      /\ log[i].hash = enums[e].hash
    /\ \A i \in Positions({"get_keys_paged"}) :
           (i > 1 /\ log[i - 1].op = "get_storage") =>
               LET before == EnumsBefore(i)
               IN  /\ log[i - 1].ok
                   /\ ~log[i].start_key.some
                   /\ i - 1 - Latest(before) = Len(enums[Cardinality(before)].keys)
    /\ \A e \in DOMAIN scope_kv :
           /\ Len(scope_kv[e]) = Len(enums[e].keys)
           /\ \A n \in DOMAIN scope_kv[e] : scope_kv[e][n][1] = enums[e].keys[n]
    /\ (pc = "get_storage") =>
           \A n \in DOMAIN key_values :
               key_values[n][1] = enums[Len(enums)].keys[n]

\* Two scopes of several keys each were enumerated and fetched.
C18_Witness ==
    /\ Succeeded
    /\ Len(enums) = 2 /\ Len(scope_kv) = 2
    /\ Len(enums[1].keys) > PAGE
    /\ Len(enums[2].keys) >= 2
    /\ enums[1].prefix # enums[2].prefix


-----------------------------------------------------------------------------
\* The outcomes of the panicking sites of the crate.
PanicResults == {UnexpectedMode, NoWsClient, NoAt, NoLastKey}

(* C19: the internal assertions are unreachable through build.  No run of build  *)
(* ends in a panic: wherever as_online / as_online_mut is called the mode is     *)
(* Online, wherever rpc_client is called the ws client is there, `at` is set     *)
(* when load_remote reads it, and all_keys is not empty when get_keys_paged      *)
(* takes its last element.                                                       *)
C19_NoPanicThroughBuild ==
    /\ result \notin PanicResults
    /\ pc \in {"rpc_get_head", "get_keys_paged", "get_storage"} =>
           (mode.kind = "Online" /\ client)
    /\ pc \in {"get_keys_paged", "get_storage"} => (mode.at # None /\ at = mode.at)
    /\ (pc = "get_keys_paged" /\ last_key.some) => all_keys # <<>>

\* A build that resolved the head itself and paged through a module went past
\* every one of the sites and succeeded.
C19_Witness ==
    /\ Online /\ Succeeded
    /\ config.at = None /\ config.modules # <<>>
    /\ \E i \in Positions({"get_keys_paged"}) : FullPage(i)
    /\ Positions({"get_storage"}) # {}


-----------------------------------------------------------------------------
(* Builds that are driven to their end: the future returned by build is polled  *)
(* until it is ready, and the remote answers every request, with a result or    *)
(* with an error.                                                               *)

NextLive ==
    \/ \E m \in Modes : SetMode(m)
    \/ \E readable \in BOOLEAN : BuildOffline(readable)
    \/ \E ok \in BOOLEAN : BuildOnline(ok)
    \/ \E ok \in BOOLEAN, head \in Hashes : RpcGetHead(ok, head)
    \/ \E ok \in BOOLEAN : GetKeysPaged(ok)
    \/ \E ok \in BOOLEAN : GetStorage(ok)
    \/ \E ok \in BOOLEAN : SaveStateSnapshot(ok)

SpecLive ==
    /\ Init
    /\ [][NextLive]_vars
    /\ WF_vars(\E ok \in BOOLEAN, head \in Hashes : RpcGetHead(ok, head))
    /\ WF_vars(\E ok \in BOOLEAN : GetKeysPaged(ok))
    /\ WF_vars(\E ok \in BOOLEAN : GetStorage(ok))
    /\ WF_vars(\E ok \in BOOLEAN : SaveStateSnapshot(ok))

\* The keys of the scope being enumerated that lie after last_key.
Remaining ==
    Cardinality({k \in KeysUnder(Prefixes(mode.modules)[scope], at) :
                    last_key.some => LexLess(last_key.key, k)})

\* A turn of the paging loop that stays in the loop.
PagingAdvances ==
    (pc = "get_keys_paged" /\ pc' = "get_keys_paged" /\ scope' = scope
        /\ log' # log) =>
        /\ last_key'.some
        /\ last_key.some => LexLess(last_key.key, last_key'.key)
        /\ Remaining' < Remaining

(* C20: termination.  Against a finite remote store that answers every request  *)
(* and returns only keys after start_key, every build that was started reaches  *)
(* a terminal outcome, Ok with a sink or an error; a turn of the paging loop     *)
(* that does not end the enumeration advances start_key, so the loop cannot      *)
(* cycle.                                                                        *)
C20_Termination ==
    /\ [][PagingAdvances]_vars
    /\ Building ~> (pc = "done" /\ (Succeeded => ext.built))

\* A build ended after an enumeration of three pages.
C20_Witness ==
    /\ Succeeded /\ ext.built
    /\ \E e \in DOMAIN enums : enums[e].pages >= 3

====
